---- MODULE Spec2Model ----
(***************************************************************************)
(* FanPyControl (src/fanpycontrol.py): a daemon that, per configured fan,  *)
(* claims manual control of the fan's hwmon mode attribute, then polls a   *)
(* temperature sensor and writes a proportional PWM value, one thread per  *)
(* fan, until a termination signal makes the main thread restore the       *)
(* original mode of every fan and clear its running flag.                  *)
(*                                                                         *)
(* Modelling decisions                                                     *)
(*  - A device file is a kernel attribute: the text a flush delivers is    *)
(*    parsed by the driver and becomes the attribute's value; a read       *)
(*    formats the value as a decimal line.  Texts are sequences of digits  *)
(*    (Str / ParseInt), so formatting and parsing are computed.            *)
(*  - A Python text handle buffers what write() is given; the buffer is    *)
(*    delivered to the device by the flush that seek() performs.           *)
(*  - Threads interleave between method calls (the interpreter lock makes  *)
(*    one call atomic); the signal handler runs on the main thread and     *)
(*    may itself be interrupted by a further signal (a stack of frames).   *)
(*  - str(PWMMode.MANUAL) is the decimal text of the member's value, as    *)
(*    IntEnum formats since Python 3.11.                                   *)
(***************************************************************************)
EXTENDS Integers, Sequences, FiniteSets, TLC

(* ------------------------------ bounds -------------------------------- *)
NFans == 2
MaxSignals == 2
MaxIter == 2
MaxWindow == 2
MaxSamples == 4
MaxDen == 4
MaxExcess == 50

(* ------------------------- program constants -------------------------- *)
MANUAL == 1
AUTO == 5
PwmLow == 0
PwmHigh == 255
MilliPerDegree == 1000

Fans == 1..NFans

\* the signals main() binds, in the order it binds them
SignalOrder == <<"SIGQUIT", "SIGTERM", "SIGHUP", "SIGINT">>
Signals == {SignalOrder[k] : k \in 1..Len(SignalOrder)}

(* ------------------------- inputs of the model ------------------------ *)
\* what the mode attribute may hold when the daemon starts
InitialModes == {2, AUTO}
\* raw sensor lines, in millidegrees, a fan loop may read
RawReadings == {50000}
\* raw sensor lines a run of the sampler alone may read
SamplerReadings == {-1500, 20000, 20999, 23000}
\* a device path of the fan that does not exist ("none": all exist)
MissingKinds == {"none", "pwm", "fan_input", "temperature", "enable"}
\* the "temperature" and "average" entries of a fan's configuration
NormalTemperature == [minimum |-> 20, maximum |-> 80, average |-> 2]
ZeroDeltaTemperature == [minimum |-> 40, maximum |-> 40, average |-> 1]
TemperatureJson == {NormalTemperature, ZeroDeltaTemperature}
\* the "pwm" entry of a fan's configuration, as the file gives it
PwmJson ==
    { [minimum |-> 50, maximum |-> 300, fan_stop |-> 0, fan_start |-> 60] }

\* raw sensor lines a run of one fan's control computation may read
CalcReadings == {-5000, 20000, 26000, 50000, 80000, 95000}
\* temperature configurations of such a run
CalcTemperatureJson ==
    { [minimum |-> 20, maximum |-> 80, average |-> n] : n \in 1..MaxWindow }
\* "pwm" entries of such a run: in range, above 255, below 0, minimum > maximum
CalcPwmJson ==
    { [minimum |-> 50, maximum |-> 255, fan_stop |-> 0, fan_start |-> 60],
      [minimum |-> 50, maximum |-> 300, fan_stop |-> 0, fan_start |-> 60],
      [minimum |-> -10, maximum |-> 100, fan_stop |-> 0, fan_start |-> 60],
      [minimum |-> 200, maximum |-> 100, fan_stop |-> 0, fan_start |-> 60] }

\* (minimum, maximum) pairs a run of clamped_linear_interpolation is given
LerpRanges == {<<0, 0>>, <<0, 1>>, <<-3, 4>>, <<50, 255>>, <<0, 255>>}
\* the fractions num / den such a run is given: below 0, in [0, 1], above 1
LerpNumerators == (-MaxDen)..(2 * MaxDen)
LerpDenominators == 1..MaxDen

\* the integers a run of pwm_clamp is given: the PWM range and beyond it
ClampInputs == (PwmLow - MaxExcess)..(PwmHigh + MaxExcess)

(* --------------------------- pure functions --------------------------- *)
Min2(a, b) == IF a <= b THEN a ELSE b
Max2(a, b) == IF a >= b THEN a ELSE b
Abs(x) == IF x < 0 THEN -x ELSE x

\* str(n) for a natural number: its decimal digits, most significant first
RECURSIVE Str(_)
Str(n) == IF n < 10 THEN <<n>> ELSE Str(n \div 10) \o <<n % 10>>

\* int(text) for a text of decimal digits
RECURSIVE ParseInt(_)
ParseInt(t) ==
    IF Len(t) = 0 THEN 0
    ELSE 10 * ParseInt(SubSeq(t, 1, Len(t) - 1)) + t[Len(t)]

\* int(a / b) for b > 0: the quotient truncated towards zero
TruncDiv(a, b) == IF a >= 0 THEN a \div b ELSE -((-a) \div b)

\* imath.clamp
clamp(x, lo, hi) == Max2(lo, Min2(x, hi))

\* faulty variant of pwm_clamp, for comparison: only the lower limit is applied
pwm_clamp_floorOnly(pwm_value) == Max2(pwm_value, PwmLow)

pwm_clamp(pwm_value) == clamp(pwm_value, PwmLow, PwmHigh)

\* round(num / den) for den > 0: nearest integer, a tie going to the even one
RoundHalfEven(num, den) ==
    LET q == num \div den
        r == num % den
    IN  IF 2 * r < den THEN q
        ELSE IF 2 * r > den THEN q + 1
        ELSE IF q % 2 = 0 THEN q ELSE q + 1

RECURSIVE SumSeq(_)
SumSeq(s) == IF Len(s) = 0 THEN 0 ELSE s[1] + SumSeq(Tail(s))

\* faulty variant of DequeAppend, for comparison: a full window drops the new reading
DequeAppend_keepOld(d, n, x) == IF Len(d) >= n THEN d ELSE Append(d, x)

\* deque(maxlen = n).append(x)
DequeAppend(d, n, x) ==
    LET a == Append(d, x)
    IN  IF Len(a) > n THEN SubSeq(a, Len(a) - n + 1, Len(a)) ELSE a

\* TemperatureConfiguration._read_temperature on the raw line `raw`
read_temperature(raw) == TruncDiv(raw, MilliPerDegree)

\* round(mean(previous_temperatures))
RoundedMean(d) == RoundHalfEven(SumSeq(d), Len(d))

\* faulty variant of clamped_linear_interpolation, for comparison: the rounded value is not clamped
clamped_linear_interpolation_unclamped(minimum, maximum, num, den) ==
    RoundHalfEven(minimum * den + (maximum - minimum) * num, den)

\* clamped_linear_interpolation(minimum, maximum, num / den), den > 0
clamped_linear_interpolation(minimum, maximum, num, den) ==
    clamp(RoundHalfEven(minimum * den + (maximum - minimum) * num, den),
          minimum, maximum)

\* faulty variant of PWMConfiguration_from_json, for comparison: the entries are taken as the file gives them
PWMConfiguration_from_json_asGiven(data) == data

\* PWMConfiguration.from_json
PWMConfiguration_from_json(data) ==
    [minimum   |-> pwm_clamp(data.minimum),
     maximum   |-> pwm_clamp(data.maximum),
     fan_stop  |-> pwm_clamp(data.fan_stop),
     fan_start |-> pwm_clamp(data.fan_start)]

\* TemperatureConfiguration.delta
delta(t) == t.maximum - t.minimum

\* faulty variant of Flushed, for comparison: the text lands after what the device held
Flushed_appended(dev, pending) ==
    IF Len(pending) = 0 THEN dev ELSE ParseInt(Str(dev) \o pending)

\* the device receives the text a flush delivers: the driver parses it
Flushed(dev, pending) == IF Len(pending) = 0 THEN dev ELSE ParseInt(pending)

\* what a handle still buffers once seek(0) has flushed it: nothing
AfterFlush(pending) == <<>>

(* ------------------------------- state -------------------------------- *)
VARIABLES
    missing,                \* per fan: the device path that does not exist
    tempJson,               \* per fan: the temperature configuration
    pwmJson,                \* per fan: the pwm configuration of the file
    mainPc,                 \* where the main thread is
    mainIdx,                \* the fan (or signal) the main thread is at
    registered,             \* the signals graceful_shutdown is bound to
    nControls,              \* how many controls the configuration lists
    signalLimit,            \* signals the environment delivers at most
    hung,                   \* the fans whose sensor device may stop answering
    bootMode,               \* per fan: what the mode attribute held at start
    sigCount,               \* signals delivered so far
    stack,                  \* running graceful_shutdown frames, innermost last
    pc,                     \* per fan: where its loop thread is
    is_running,             \* per fan: FanConfiguration.is_running
    original_mode,          \* per fan: FanConfiguration.original_mode
    pwm,                    \* per fan: its PWMConfiguration
    modeDev,                \* per fan: value of the mode attribute
    modePending,            \* per fan: text buffered in mode_file
    pwmDev,                 \* per fan: value of the PWM attribute
    pwmPending,             \* per fan: text buffered in pwm_file
    previous_temperatures,  \* per fan: the sampler's window
    target,                 \* per fan: the PWM the last iteration computed
    stopBegun,              \* per fan: a shutdown() of it has been entered
    iters,                  \* per fan: iterations performed before stopBegun
    sleepsAfterStop,        \* per fan: sleeps begun after the flag was cleared
    manualWrites,           \* per fan: times its loop wrote MANUAL to mode_file
    restoreFailed,          \* the fans whose shutdown() raised an I/O error
    snap,                   \* per fan: what its shutdown() calls left behind
    readings,               \* the temperatures a sampler run has appended
    lastAverage,            \* what the sampler's last call returned
    calcArgs,               \* the arguments a run of a numeric helper was given
    calcOut                 \* what the helper returned, call after call

cfgVars == <<nControls, missing, tempJson, pwmJson, signalLimit, hung, bootMode>>
mainVars == <<mainPc, mainIdx, registered>>
fanVars == <<pc, is_running, original_mode, pwm, modeDev, modePending,
             pwmDev, pwmPending, previous_temperatures, target>>
ghostVars == <<stopBegun, iters, sleepsAfterStop, manualWrites, restoreFailed,
               snap>>
samplerVars == <<readings, lastAverage>>
calcVars == <<calcArgs, calcOut>>
vars == <<cfgVars, mainVars, sigCount, stack, fanVars, ghostVars, samplerVars,
          calcVars>>

NoMode == -1
NoPwm == -1
NoPwmConfiguration ==
    [minimum |-> NoPwm, maximum |-> NoPwm, fan_stop |-> NoPwm, fan_start |-> NoPwm]

\* nothing recorded yet about the shutdown() calls of a fan.  `first` is
\* what the first completed call left (mode device, stream position of the
\* mode handle, running flag) and `firstCall` whether that call had begun on
\* a loop that was past its entry; `again` is the same record for a later
\* call that began after the first had completed
NoSnap ==
    [firstCall |-> "none", first |-> <<0, 0, FALSE>>,
     againTaken |-> FALSE, again |-> <<0, 0, FALSE>>]

Alive == mainPc \in {"load", "start", "register", "wait", "interrupted"}

\* a configuration file, the devices and the environment of a run
AnyConfig ==
    /\ nControls \in 1..NFans
    /\ signalLimit \in 0..MaxSignals
    /\ hung \in SUBSET (1..nControls)
    /\ missing \in [Fans -> MissingKinds]
    /\ tempJson \in [Fans -> TemperatureJson]
    /\ pwmJson \in [Fans -> PwmJson]
    /\ modeDev \in [Fans -> InitialModes]
    \* the slots of fans the configuration does not list are never used
    /\ \A i \in Fans : i > nControls =>
          /\ missing[i] = "none"
          /\ tempJson[i] = NormalTemperature
          /\ modeDev[i] = AUTO

\* the state when main() begins
InitProgram ==
    /\ bootMode = modeDev
    /\ mainPc = "load"
    /\ mainIdx = 1
    /\ registered = {}
    /\ sigCount = 0
    /\ stack = <<>>
    /\ pc = [i \in Fans |-> "idle"]
    /\ is_running = [i \in Fans |-> FALSE]
    /\ original_mode = [i \in Fans |-> NoMode]
    /\ pwm = [i \in Fans |-> NoPwmConfiguration]
    /\ modePending = [i \in Fans |-> <<>>]
    /\ pwmDev = [i \in Fans |-> 0]
    /\ pwmPending = [i \in Fans |-> <<>>]
    /\ previous_temperatures = [i \in Fans |-> <<>>]
    /\ target = [i \in Fans |-> NoPwm]
    /\ stopBegun = [i \in Fans |-> FALSE]
    /\ iters = [i \in Fans |-> 0]
    /\ sleepsAfterStop = [i \in Fans |-> 0]
    /\ manualWrites = [i \in Fans |-> 0]
    /\ restoreFailed = {}
    /\ snap = [i \in Fans |-> NoSnap]
    /\ readings = <<>>
    /\ lastAverage = 0

\* ... and no numeric helper is run on its own
InitState ==
    /\ InitProgram
    /\ calcArgs = <<>>
    /\ calcOut = <<>>

\* any configuration; the environment delivers at most one signal and
\* every sensor answers
Init ==
    /\ signalLimit = 1
    /\ hung = {}
    /\ AnyConfig
    /\ InitState

\* a configuration that loads, with regular temperature ranges
Loadable ==
    /\ missing = [i \in Fans |-> "none"]
    /\ tempJson = [i \in Fans |-> NormalTemperature]
    /\ modeDev = [i \in Fans |-> AUTO]

\* repeated signals against a configuration that loads
InitRepeat ==
    /\ signalLimit = MaxSignals
    /\ hung = {}
    /\ Loadable
    /\ AnyConfig
    /\ InitState

\* one fan, at most one signal
InitOne ==
    /\ nControls = 1
    /\ signalLimit = 1
    /\ hung = {}
    /\ Loadable
    /\ AnyConfig
    /\ InitState

\* every fan configured, no signal
InitQuiet ==
    /\ nControls = NFans
    /\ signalLimit = 0
    /\ Loadable
    /\ AnyConfig
    /\ InitState

(* ---------------------------- main thread ----------------------------- *)
\* the main thread runs main()'s own code only while no handler frame is up
MainRuns == Alive /\ stack = <<>>

\* read_configuration: FanConfiguration.from_json and __post_init__ of fan i.
\* A missing pwm or temperature path ends the process in
\* resolve_and_validate_path (exit(1)); a missing <pwm>_enable raises in
\* __post_init__.  Otherwise the original mode is read and parsed.
\* faulty variant of OnMissing, for comparison: the failure is swallowed and main goes on to the threads
OnMissing_goOn(i) == "start"

\* where main is once a device path of fan i proved missing: the process ends
OnMissing(i) == "aborted"

\* faulty variant of CapturedMode, for comparison: AUTO is assumed, the device is not read
CapturedMode_assumed(i) == AUTO

\* __post_init__: int(mode_file.readline()), the mode fan i's device holds
CapturedMode(i) == ParseInt(Str(modeDev[i]))

LoadFan(i) ==
    /\ MainRuns
    /\ mainPc = "load"
    /\ mainIdx = i
    /\ IF missing[i] # "none"
       THEN /\ mainPc' = OnMissing(i)
            /\ UNCHANGED <<mainIdx, original_mode, pwm, is_running>>
       ELSE /\ original_mode' = [original_mode EXCEPT ![i] = CapturedMode(i)]
            /\ pwm' = [pwm EXCEPT ![i] = PWMConfiguration_from_json(pwmJson[i])]
            /\ is_running' = [is_running EXCEPT ![i] = TRUE]
            /\ mainIdx' = IF i = nControls THEN 1 ELSE i + 1
            /\ mainPc' = IF i = nControls THEN "start" ELSE "load"
    /\ UNCHANGED <<cfgVars, registered, sigCount, stack, pc, modeDev, modePending,
                   pwmDev, pwmPending, previous_temperatures, target,
                   ghostVars, samplerVars, calcVars>>

\* main: Thread(target=control.run, ...).start() for fan i
StartThread(i) ==
    /\ MainRuns
    /\ mainPc = "start"
    /\ mainIdx = i
    /\ pc' = [pc EXCEPT ![i] = "set_mode_write"]
    /\ mainIdx' = IF i = nControls THEN 1 ELSE i + 1
    /\ mainPc' = IF i = nControls THEN "register" ELSE "start"
    /\ UNCHANGED <<cfgVars, registered, sigCount, stack, is_running, original_mode,
                   pwm, modeDev, modePending, pwmDev, pwmPending,
                   previous_temperatures, target, ghostVars, samplerVars, calcVars>>

\* main: the next signal.signal(..., graceful_shutdown)
RegisterHandler ==
    /\ MainRuns
    /\ mainPc = "register"
    /\ registered' = registered \cup {SignalOrder[mainIdx]}
    /\ mainIdx' = IF mainIdx = Len(SignalOrder) THEN 1 ELSE mainIdx + 1
    /\ mainPc' = IF mainIdx = Len(SignalOrder) THEN "wait" ELSE "register"
    /\ UNCHANGED <<cfgVars, sigCount, stack, fanVars, ghostVars, samplerVars, calcVars>>

\* a new frame of graceful_shutdown: about to call shutdown() of the first fan
NewFrame ==
    [fan |-> 1, step |-> "write", wrote |-> [f \in Fans |-> 0], call |-> "other"]

\* a bound signal arrives: the main thread enters graceful_shutdown
SignalHandled(s) ==
    /\ Alive
    /\ sigCount < signalLimit
    /\ s \in registered
    /\ sigCount' = sigCount + 1
    /\ stack' = Append(stack, NewFrame)
    /\ UNCHANGED <<cfgVars, mainVars, fanVars, ghostVars, samplerVars, calcVars>>

\* a signal arrives that graceful_shutdown is not (yet) bound to.  SIGINT
\* raises KeyboardInterrupt in the main thread: main() is left, the threads
\* started so far go on (before any was started the process just ends); a
\* KeyboardInterrupt while the interpreter waits for the threads ends the
\* process.  The other signals end the process at once.  Either way a
\* graceful_shutdown frame that was running is abandoned.
SignalDefault(s) ==
    /\ Alive
    /\ sigCount < signalLimit
    /\ s \notin registered
    /\ sigCount' = sigCount + 1
    /\ mainPc' = IF s # "SIGINT" \/ mainPc = "interrupted" THEN "killed"
                 ELSE IF mainPc = "load" THEN "aborted"
                 ELSE "interrupted"
    /\ stack' = <<>>
    /\ UNCHANGED <<cfgVars, mainIdx, registered, fanVars, ghostVars, samplerVars, calcVars>>

\* faulty variant of RestoreText, for comparison: shutdown() writes the AUTO mode, not the stored one
RestoreText_auto(f) == Str(AUTO)

\* what shutdown() of fan f writes to mode_file: str(self.original_mode)
RestoreText(f) == Str(original_mode[f])

Top == stack[Len(stack)]
SetTop(f) == [stack EXCEPT ![Len(stack)] = f]

\* fan i's loop thread is past set_mode(MANUAL), the first statement of run()
Entered(i) == pc[i] \notin {"idle", "set_mode_write", "set_mode_seek"}

\* how the shutdown() call of fan f that begins now stands to the others:
\* "first" is the first call of all, on a loop that has entered; "again" is
\* a call that begins, on a loop that has entered, after such a first call
\* has completed and while no other call of f is under way or was abandoned
\* with its text still in the handle.  Either becomes
\* "other" when a nested call of f begins before it is over (Overlapped).
CallKind(f) ==
    IF ~stopBegun[f] /\ Entered(f) THEN "first"
    ELSE IF /\ snap[f].firstCall = "first"
            /\ Entered(f)
            /\ modePending[f] = <<>>
            /\ \A k \in 1..(Len(stack) - 1) :
                  ~(stack[k].fan = f /\ stack[k].step \in {"seek", "flag"})
         THEN "again"
         ELSE "other"

\* an interrupted frame once a nested frame begins shutdown() of fan f: a
\* call of f the frame was in the middle of is no longer a call on its own
Overlapped(frame, f) ==
    IF frame.fan = f /\ frame.step \in {"seek", "flag"}
    THEN [frame EXCEPT !.call = "other"]
    ELSE frame

\* the record of fan f's shutdown() calls once the call of kind c completes
SnapAfter(f, c) ==
    LET now == <<modeDev[f], Len(modePending[f]), FALSE>>
    IN  IF snap[f].firstCall = "none"
        THEN [snap[f] EXCEPT !.firstCall = c, !.first = now]
        ELSE IF c = "again" /\ ~snap[f].againTaken
             THEN [snap[f] EXCEPT !.againTaken = TRUE, !.again = now]
             ELSE snap[f]

\* FanConfiguration.shutdown: mode_file.write(str(original_mode))
ShutdownWrite ==
    /\ Alive
    /\ stack # <<>>
    /\ Top.step = "write"
    /\ LET f == Top.fan
       IN  /\ modePending' = [modePending EXCEPT ![f] = @ \o RestoreText(f)]
           /\ stack' = [k \in DOMAIN stack |->
                           IF k = Len(stack)
                           THEN [Top EXCEPT !.step = "seek",
                                            !.wrote[f] = @ + 1,
                                            !.call = CallKind(f)]
                           ELSE Overlapped(stack[k], f)]
           /\ stopBegun' = [stopBegun EXCEPT ![f] = TRUE]
    /\ UNCHANGED <<cfgVars, mainVars, sigCount, pc, is_running, original_mode, pwm,
                   modeDev, pwmDev, pwmPending, previous_temperatures, target,
                   iters, sleepsAfterStop, manualWrites, restoreFailed, snap,
                   samplerVars, calcVars>>

\* FanConfiguration.shutdown: mode_file.seek(0), which flushes the handle
ShutdownSeek ==
    /\ Alive
    /\ stack # <<>>
    /\ Top.step = "seek"
    /\ LET f == Top.fan
       IN  /\ modeDev' = [modeDev EXCEPT ![f] = Flushed(@, modePending[f])]
           /\ modePending' = [modePending EXCEPT ![f] = AfterFlush(@)]
           /\ stack' = SetTop([Top EXCEPT !.step = "flag"])
    /\ UNCHANGED <<cfgVars, mainVars, sigCount, pc, is_running, original_mode, pwm,
                   pwmDev, pwmPending, previous_temperatures, target,
                   ghostVars, samplerVars, calcVars>>

\* FanConfiguration.shutdown: the flush in mode_file.seek(0) raises OSError
\* (the device rejects the write).  Nothing catches it: it leaves shutdown(),
\* graceful_shutdown's for loop and every handler frame below, and is raised
\* in the main thread, as a KeyboardInterrupt would be.  The text stays in
\* the handle.
ShutdownSeekError ==
    /\ Alive
    /\ stack # <<>>
    /\ Top.step = "seek"
    /\ restoreFailed' = restoreFailed \cup {Top.fan}
    /\ stack' = <<>>
    /\ mainPc' = IF mainPc = "interrupted" THEN "killed" ELSE "interrupted"
    /\ UNCHANGED <<cfgVars, mainIdx, registered, sigCount, fanVars, stopBegun,
                   iters, sleepsAfterStop, manualWrites, snap, samplerVars,
                   calcVars>>

\* faulty variant of NextControl, for comparison: the for loop ends after its first control
NextControl_first(f) == nControls + 1

\* the fan graceful_shutdown's for loop visits after fan f (past the last: none)
NextControl(f) == f + 1

\* FanConfiguration.shutdown: is_running = False, and graceful_shutdown's
\* for loop goes on to the next control
ShutdownFlag ==
    /\ Alive
    /\ stack # <<>>
    /\ Top.step = "flag"
    /\ LET f == Top.fan
       IN  /\ is_running' = [is_running EXCEPT ![f] = FALSE]
           /\ snap' = [snap EXCEPT ![f] = SnapAfter(f, Top.call)]
           /\ stack' = SetTop([Top EXCEPT
                                 !.fan = NextControl(f),
                                 !.call = "other",
                                 !.step = IF NextControl(f) > nControls THEN "return"
                                          ELSE "write"])
    /\ UNCHANGED <<cfgVars, mainVars, sigCount, pc, original_mode, pwm, modeDev,
                   modePending, pwmDev, pwmPending, previous_temperatures, target,
                   stopBegun, iters, sleepsAfterStop, manualWrites, restoreFailed,
                   samplerVars, calcVars>>

\* graceful_shutdown returns to what the main thread was doing
HandlerReturn ==
    /\ Alive
    /\ stack # <<>>
    /\ Top.step = "return"
    /\ stack' = SubSeq(stack, 1, Len(stack) - 1)
    /\ UNCHANGED <<cfgVars, mainVars, sigCount, fanVars, ghostVars, samplerVars, calcVars>>

\* the interpreter ends once main() is over and every started thread has ended
ProcessExit ==
    /\ mainPc \in {"wait", "interrupted"}
    /\ stack = <<>>
    /\ \A i \in Fans : pc[i] \in {"idle", "done", "crashed"}
    /\ mainPc' = "exited"
    /\ UNCHANGED <<cfgVars, mainIdx, registered, sigCount, stack, fanVars,
                   ghostVars, samplerVars, calcVars>>

(* ---------------------------- loop threads ---------------------------- *)
Sat(n) == Min2(n + 1, MaxIter)

\* FanConfiguration.run -> set_mode(MANUAL): mode_file.write(str(mode))
SetModeWrite(i) ==
    /\ Alive
    /\ pc[i] = "set_mode_write"
    /\ modePending' = [modePending EXCEPT ![i] = @ \o Str(MANUAL)]
    /\ pc' = [pc EXCEPT ![i] = "set_mode_seek"]
    /\ manualWrites' = [manualWrites EXCEPT ![i] = Sat(@)]
    /\ UNCHANGED <<cfgVars, mainVars, sigCount, stack, is_running, original_mode,
                   pwm, modeDev, pwmDev, pwmPending, previous_temperatures, target,
                   stopBegun, iters, sleepsAfterStop, restoreFailed, snap,
                   samplerVars, calcVars>>

\* set_mode: mode_file.seek(0), which flushes the handle
SetModeSeek(i) ==
    /\ Alive
    /\ pc[i] = "set_mode_seek"
    /\ modeDev' = [modeDev EXCEPT ![i] = Flushed(@, modePending[i])]
    /\ modePending' = [modePending EXCEPT ![i] = AfterFlush(@)]
    /\ pc' = [pc EXCEPT ![i] = "check"]
    /\ UNCHANGED <<cfgVars, mainVars, sigCount, stack, is_running, original_mode,
                   pwm, pwmDev, pwmPending, previous_temperatures, target,
                   ghostVars, samplerVars, calcVars>>

\* faulty variant of AfterCheck, for comparison: the loop never looks at the flag
AfterCheck_forever(flag) == "body"

\* where the loop goes after evaluating `while self.is_running`
AfterCheck(flag) == IF flag THEN "body" ELSE "done"

\* run: the loop condition is evaluated
CheckRunning(i) ==
    /\ Alive
    /\ pc[i] = "check"
    /\ pc' = [pc EXCEPT ![i] = AfterCheck(is_running[i])]
    /\ UNCHANGED <<cfgVars, mainVars, sigCount, stack, is_running, original_mode,
                   pwm, modeDev, modePending, pwmDev, pwmPending,
                   previous_temperatures, target, ghostVars, samplerVars, calcVars>>

\* TemperatureConfiguration.get_temperature on window d of capacity n:
\* the window after the call and the value returned
get_temperature(d, n, raw) ==
    LET w == DequeAppend(d, n, read_temperature(raw))
    IN  [window |-> w, value |-> RoundedMean(w)]

\* faulty variant of get_current_pwm, for comparison: the range's minimum is not subtracted
get_current_pwm_noOffset(p, tj, t) ==
    clamped_linear_interpolation(p.minimum, p.maximum, t, delta(tj))

\* FanConfiguration.get_current_pwm when the sampler returned `t`
\* (the temperature range has a positive delta)
get_current_pwm(p, tj, t) ==
    clamped_linear_interpolation(p.minimum, p.maximum, t - tj.minimum, delta(tj))

\* what get_current_pwm may return.  imath.clamp is given its bounds in the
\* order (minimum, maximum); when the configuration has minimum > maximum the
\* library returns one of the two bounds, which of them depending on how it
\* orders its comparisons.
get_current_pwm_outcomes(p, tj, t) ==
    IF p.minimum <= p.maximum THEN {get_current_pwm(p, tj, t)}
    ELSE {p.minimum, p.maximum}

\* faulty variant of WindowUpdate, for comparison: one deque shared by every fan
WindowUpdate_shared(i, w) == [j \in Fans |-> w]

\* the windows once fan i's sampler holds w: each fan has a deque of its own
WindowUpdate(i, w) == [previous_temperatures EXCEPT ![i] = w]

\* run: one loop body, write_pwm(get_current_pwm()), on the sensor line `raw`.
\* get_temperature appends to the window; a zero delta raises
\* ZeroDivisionError in get_temperature_percentage, which ends the thread;
\* otherwise write_pwm seeks to 0 (delivering what the handle still held) and
\* buffers the new text, and the thread goes to sleep.
Iterate(i, raw) ==
    /\ Alive
    /\ pc[i] = "body"
    /\ LET g == get_temperature(previous_temperatures[i], tempJson[i].average, raw)
       IN  /\ previous_temperatures' = WindowUpdate(i, g.window)
           /\ IF delta(tempJson[i]) = 0
              THEN /\ pc' = [pc EXCEPT ![i] = "crashed"]
                   /\ UNCHANGED <<target, pwmDev, pwmPending, iters, sleepsAfterStop>>
              ELSE \E t \in get_current_pwm_outcomes(pwm[i], tempJson[i], g.value) :
                       /\ target' = [target EXCEPT ![i] = t]
                       /\ pwmDev' = [pwmDev EXCEPT ![i] = Flushed(@, pwmPending[i])]
                       /\ pwmPending' = [pwmPending EXCEPT ![i] = Str(t)]
                       /\ pc' = [pc EXCEPT ![i] = "sleep"]
                       /\ iters' = [iters EXCEPT ![i] = IF stopBegun[i] THEN @ ELSE Sat(@)]
                       /\ sleepsAfterStop' =
                            [sleepsAfterStop EXCEPT
                               ![i] = IF is_running[i] THEN @ ELSE Sat(@)]
    /\ UNCHANGED <<cfgVars, mainVars, sigCount, stack, is_running, original_mode,
                   pwm, modeDev, modePending, stopBegun, manualWrites, restoreFailed,
                   snap, samplerVars, calcVars>>

\* faulty variant of AfterIOError, for comparison: the error takes every started thread down
AfterIOError_all(i) == [j \in Fans |-> IF pc[j] = "idle" THEN "idle" ELSE "crashed"]

\* what a device I/O error raised in fan i's loop body does to the threads
AfterIOError(i) == [pc EXCEPT ![i] = "crashed"]

\* run: the sensor read raises OSError; the exception ends this thread
ReadError(i) ==
    /\ Alive
    /\ pc[i] = "body"
    /\ pc' = AfterIOError(i)
    /\ UNCHANGED <<cfgVars, mainVars, sigCount, stack, is_running, original_mode,
                   pwm, modeDev, modePending, pwmDev, pwmPending,
                   previous_temperatures, target, ghostVars, samplerVars, calcVars>>

\* run: the sensor read never returns
ReadBlocks(i) ==
    /\ Alive
    /\ pc[i] = "body"
    /\ i \in hung
    /\ pc' = [pc EXCEPT ![i] = "blocked"]
    /\ UNCHANGED <<cfgVars, mainVars, sigCount, stack, is_running, original_mode,
                   pwm, modeDev, modePending, pwmDev, pwmPending,
                   previous_temperatures, target, ghostVars, samplerVars, calcVars>>

\* faulty variant of AfterSleep, for comparison: the loop re-enters run() from its first statement
AfterSleep_reenter == "set_mode_write"

\* where the loop goes once sleep(interval) is over: back to its condition
AfterSleep == "check"

\* run: sleep(interval) is over
Wake(i) ==
    /\ Alive
    /\ pc[i] = "sleep"
    /\ pc' = [pc EXCEPT ![i] = AfterSleep]
    /\ UNCHANGED <<cfgVars, mainVars, sigCount, stack, is_running, original_mode,
                   pwm, modeDev, modePending, pwmDev, pwmPending,
                   previous_temperatures, target, ghostVars, samplerVars, calcVars>>

(* ---------------------------- specification --------------------------- *)
\* the steps of fan i's loop thread that the scheduler owes it
LoopStep(i) ==
    \/ SetModeWrite(i)
    \/ SetModeSeek(i)
    \/ CheckRunning(i)
    \/ \E raw \in RawReadings : Iterate(i, raw)
    \/ Wake(i)

LoopFault(i) ==
    \/ ReadError(i)
    \/ ReadBlocks(i)

MainStep ==
    \/ \E i \in Fans : LoadFan(i)
    \/ \E i \in Fans : StartThread(i)
    \/ RegisterHandler

HandlerStep ==
    \/ ShutdownWrite
    \/ ShutdownSeek
    \/ ShutdownFlag
    \/ HandlerReturn

\* the steps of a run in which every sensor read returns (or raises)
Next ==
    \/ MainStep
    \/ HandlerStep
    \/ \E s \in Signals : SignalHandled(s)
    \/ \E s \in Signals : SignalDefault(s)
    \/ \E i \in Fans : LoopStep(i)
    \/ \E i \in Fans : ReadError(i)
    \/ ProcessExit

Spec == Init /\ [][Next]_vars

SpecRepeat == InitRepeat /\ [][Next]_vars

\* one fan and one signal; every thread that can take a step eventually does
FairOne ==
    /\ InitOne
    /\ [][Next]_vars
    /\ \A i \in Fans : WF_vars(LoopStep(i))
    /\ WF_vars(MainStep)
    /\ WF_vars(HandlerStep)

\* every fan configured, at most one signal
InitFault ==
    /\ nControls = NFans
    /\ signalLimit = 1
    /\ hung = {}
    /\ Loadable
    /\ AnyConfig
    /\ InitState

\* the steps of a run in which a bound signal may arrive and the restore
\* write of a fan may fail
NextFault ==
    \/ MainStep
    \/ HandlerStep
    \/ ShutdownSeekError
    \/ \E s \in Signals : SignalHandled(s)
    \/ \E i \in Fans : LoopStep(i)
    \/ ProcessExit

SpecFault == InitFault /\ [][NextFault]_vars

\* the steps of a run in which no signal arrives and a sensor may hang
NextQuiet ==
    \/ MainStep
    \/ \E i \in Fans : LoopStep(i)
    \/ \E i \in Fans : LoopFault(i)
    \/ ProcessExit

\* every fan, no signal; every thread that can take a step eventually does
FairQuiet ==
    /\ InitQuiet
    /\ [][NextQuiet]_vars
    /\ \A i \in Fans : WF_vars(LoopStep(i))
    /\ WF_vars(MainStep)

(* --------------------------- sampler alone ---------------------------- *)
\* one sampler of window 1..MaxWindow, before its first call
InitSampler ==
    /\ nControls = 1
    /\ signalLimit = 0
    /\ hung = {}
    /\ missing = [i \in Fans |-> "none"]
    /\ \E n \in 1..MaxWindow :
         tempJson = [i \in Fans |->
                       IF i = 1 THEN [minimum |-> 20, maximum |-> 80, average |-> n]
                       ELSE NormalTemperature]
    /\ pwmJson \in [Fans -> PwmJson]
    /\ modeDev = [i \in Fans |-> AUTO]
    /\ InitState

\* one call of get_temperature on fan 1's sampler, the sensor showing `raw`
SamplerCall(raw) ==
    /\ Len(readings) < MaxSamples
    /\ LET g == get_temperature(previous_temperatures[1], tempJson[1].average, raw)
       IN  /\ previous_temperatures' = [previous_temperatures EXCEPT ![1] = g.window]
           /\ lastAverage' = g.value
           /\ readings' = Append(readings, read_temperature(raw))
    /\ UNCHANGED <<cfgVars, mainVars, sigCount, stack, pc, is_running, original_mode,
                   pwm, modeDev, modePending, pwmDev, pwmPending, target, ghostVars,
                   calcVars>>

NextSampler == \E raw \in SamplerReadings : SamplerCall(raw)

SamplerSpec == InitSampler /\ [][NextSampler]_vars

(* ------------------------ one fan's computation ----------------------- *)
\* one fan, no signal, its pwm entry and its readings drawn from wider sets
InitCalc ==
    /\ nControls = 1
    /\ signalLimit = 0
    /\ hung = {}
    /\ missing = [i \in Fans |-> "none"]
    /\ \E tj \in CalcTemperatureJson :
         tempJson = [i \in Fans |-> IF i = 1 THEN tj ELSE NormalTemperature]
    /\ \E pj \in CalcPwmJson, qj \in PwmJson :
         pwmJson = [i \in Fans |-> IF i = 1 THEN pj ELSE qj]
    /\ modeDev = [i \in Fans |-> AUTO]
    /\ InitState

CalcLoopStep ==
    \/ SetModeWrite(1)
    \/ SetModeSeek(1)
    \/ CheckRunning(1)
    \/ \E raw \in CalcReadings : Iterate(1, raw)
    \/ Wake(1)

NextCalc ==
    \/ MainStep
    \/ CalcLoopStep

CalcSpec == InitCalc /\ [][NextCalc]_vars

(* ----------------------- numeric helpers alone ------------------------ *)
\* a configuration of one regular fan, which these runs never start
IdleConfig ==
    /\ nControls = 1
    /\ signalLimit = 0
    /\ hung = {}
    /\ missing = [i \in Fans |-> "none"]
    /\ tempJson = [i \in Fans |-> NormalTemperature]
    /\ pwmJson \in [Fans -> PwmJson]
    /\ modeDev = [i \in Fans |-> AUTO]
    /\ InitProgram

\* clamped_linear_interpolation is about to be called on a range with
\* minimum <= maximum and a fraction num / den
InitLerp ==
    /\ IdleConfig
    /\ \E r \in LerpRanges, num \in LerpNumerators, den \in LerpDenominators :
         calcArgs = <<r[1], r[2], num, den>>
    /\ calcOut = <<>>

\* the call
LerpCall ==
    /\ calcOut = <<>>
    /\ calcOut' = <<clamped_linear_interpolation(calcArgs[1], calcArgs[2],
                                                 calcArgs[3], calcArgs[4])>>
    /\ UNCHANGED <<cfgVars, mainVars, sigCount, stack, fanVars, ghostVars,
                   samplerVars, calcArgs>>

LerpSpec == InitLerp /\ [][LerpCall]_vars

\* pwm_clamp is about to be called on an integer
InitClamp ==
    /\ IdleConfig
    /\ \E x \in ClampInputs : calcArgs = <<x>>
    /\ calcOut = <<>>

\* the call, and a second call on what the first returned
ClampCall ==
    /\ Len(calcOut) < 2
    /\ calcOut' = Append(calcOut,
                         pwm_clamp(IF calcOut = <<>> THEN calcArgs[1]
                                   ELSE calcOut[Len(calcOut)]))
    /\ UNCHANGED <<cfgVars, mainVars, sigCount, stack, fanVars, ghostVars,
                   samplerVars, calcArgs>>

ClampSpec == InitClamp /\ [][ClampCall]_vars

(* ============================== claims ================================ *)
Configured == 1..nControls

\* shutdown() has cleared fan i's running flag
Stopped(i) == original_mode[i] # NoMode /\ ~is_running[i]

\* fan i's loop thread has ended
Ended(i) == pc[i] \in {"done", "crashed"}

\* no graceful_shutdown frame is at fan i
NotInShutdown(i) == \A k \in DOMAIN stack : stack[k].fan # i

\* this step is fan i's loop passing a new value to write_pwm
WritesPwm(i) == pc[i] = "body" /\ pc'[i] = "sleep"

\* this step is fan i's loop writing MANUAL to its mode handle
WritesManual(i) == pc[i] = "set_mode_write" /\ pc'[i] = "set_mode_seek"

(* -------------------------------- C1 ---------------------------------- *)
\* C1: a fan whose loop had performed at least one iteration when the one
\* shutdown() of it was called holds, once shutdown() has returned and the
\* loop has exited, the mode its device held at construction, and its
\* running flag is false, whatever the number of iterations.
C1_ModeRestoredAfterShutdown ==
    \A i \in Fans :
        (/\ iters[i] >= 1
         /\ stopBegun[i]
         /\ sigCount = 1
         /\ NotInShutdown(i)
         /\ pc[i] = "done")
        => (modeDev[i] = bootMode[i] /\ ~is_running[i])

\* a fan that started in a mode other than MANUAL and AUTO, was shut down
\* after MaxIter iterations and has exited
C1_Witness ==
    \E i \in Fans :
        /\ iters[i] = MaxIter
        /\ stopBegun[i] /\ sigCount = 1 /\ NotInShutdown(i)
        /\ pc[i] = "done"
        /\ bootMode[i] \notin {MANUAL, AUTO}
        /\ modeDev[i] = bootMode[i]

(* -------------------------------- C2 ---------------------------------- *)
\* C2: once shutdown() of a fan has completed, the fan's loop passes no
\* further value to the PWM-output device, whatever the interleaving.
C2_NoPwmWriteAfterShutdown ==
    [][\A i \in Fans : Stopped(i) => ~WritesPwm(i)]_vars

(* -------------------------------- C3 ---------------------------------- *)
\* C3: once shutdown() has restored a fan's mode, MANUAL is never written to
\* the fan's mode-control device again and the running flag stays false,
\* also when the shutdown arrives before the loop's entry step.
C3_NoManualAfterRestore ==
    [][\A i \in Fans : Stopped(i) => (~WritesManual(i) /\ ~is_running'[i])]_vars

C5_LoopExitsWithinOneInterval ==
    /\ [](\A i \in Fans : sleepsAfterStop[i] <= 1)
    /\ \A i \in Fans : Stopped(i) ~> Ended(i)

\* the flag was cleared while the loop was past its check: it slept once
\* more and then ended
C5_Witness ==
    \E i \in Fans : Stopped(i) /\ pc[i] = "done" /\ sleepsAfterStop[i] = 1

(* -------------------------------- C6 ---------------------------------- *)
\* the configuration lists a fan whose temperature range has a zero delta
ZeroDeltaConfigured == \E i \in Configured : delta(tempJson[i]) = 0

\* C6: a configuration with a zero temperature delta is rejected at startup:
\* no fan's loop thread begins and no mode-control device leaves the mode
\* it started in.
C6_ZeroDeltaRejected ==
    ZeroDeltaConfigured =>
        \A j \in Fans : pc[j] = "idle" /\ modePending[j] = <<>> /\ modeDev[j] = bootMode[j]

(* -------------------------------- C7 ---------------------------------- *)
\* the configuration lists a fan one of whose device paths does not exist
MissingConfigured == \E i \in Configured : missing[i] # "none"

\* C7: when a device file of any configured fan is missing, main() never
\* gets past loading: no loop thread is started, nothing is written to any
\* mode-control device and no PWM value is computed or written.
C7_InitializationAllOrNothing ==
    MissingConfigured =>
        /\ mainPc \in {"load", "aborted", "killed"}
        /\ \A j \in Fans :
             /\ pc[j] = "idle"
             /\ modePending[j] = <<>> /\ modeDev[j] = bootMode[j]
             /\ pwmPending[j] = <<>> /\ target[j] = NoPwm

\* the first fan was constructed, the second fan's device was missing and
\* the process has ended
C7_Witness ==
    /\ nControls = NFans
    /\ missing[1] = "none" /\ original_mode[1] # NoMode
    /\ missing[NFans] # "none"
    /\ mainPc = "aborted"

(* -------------------------------- C8 ---------------------------------- *)
\* this step is fan i's loop thread ending on an exception
Crashes(i) == pc[i] # "crashed" /\ pc'[i] = "crashed"

\* C8: an I/O error in one fan's loop ends only that fan's thread: the step
\* leaves every other thread, flag and the process as they are, and every
\* other running fan whose sensor answers goes on to its next PWM write
\* (unless it meets an error of its own).
C8_IOErrorIsLocal ==
    /\ [][\A i \in Fans : Crashes(i) =>
            /\ mainPc' = mainPc
            /\ \A j \in Fans \ {i} :
                 pc'[j] = pc[j] /\ is_running'[j] = is_running[j]]_vars
    /\ \A i \in Fans : \A j \in Fans \ {i} :
         (pc[i] = "crashed" /\ pc[j] = "check" /\ is_running[j] /\ j \notin hung)
            ~> (pc[j] \in {"sleep", "crashed"})

\* fan 1 died in its first iteration and fan 2 has iterated MaxIter times
C8_Witness ==
    /\ pc[1] = "crashed" /\ iters[1] = 0
    /\ pc[2] = "sleep" /\ iters[2] = MaxIter /\ is_running[2]

(* -------------------------------- C9 ---------------------------------- *)
\* this step is a step of fan i's loop thread
LoopMoves(i) == pc[i] # "idle" /\ pc'[i] # pc[i]

\* C9: a step of one fan's loop leaves every other fan's window, running
\* flag, mode-control device and PWM-output device unchanged, and a fan
\* blocked in a sensor read for ever does not keep another running fan,
\* whose sensor answers, from its next PWM write.
C9_LoopsAreIndependent ==
    /\ [][\A i \in Fans : LoopMoves(i) =>
            \A j \in Fans \ {i} :
                /\ previous_temperatures'[j] = previous_temperatures[j]
                /\ is_running'[j] = is_running[j]
                /\ modeDev'[j] = modeDev[j] /\ modePending'[j] = modePending[j]
                /\ pwmDev'[j] = pwmDev[j] /\ pwmPending'[j] = pwmPending[j]]_vars
    /\ \A i \in Fans : \A j \in Fans \ {i} :
         (pc[i] = "blocked" /\ pc[j] = "check" /\ is_running[j] /\ j \notin hung)
            ~> (pc[j] \in {"sleep", "crashed"})

\* fan 1 hangs in its first read while fan 2 has iterated MaxIter times
C9_Witness ==
    /\ pc[1] = "blocked" /\ iters[1] = 0
    /\ pc[2] = "sleep" /\ iters[2] = MaxIter
    /\ Len(previous_temperatures[2]) = MaxIter

(* -------------------------------- C10 --------------------------------- *)
\* the last m elements of s
LastOf(s, m) == [j \in 1..m |-> s[Len(s) - m + j]]

\* v is an integer nearest to the mean of the non-empty sequence w
NearestToMean(v, w) == 2 * Abs(v * Len(w) - SumSeq(w)) <= Len(w)

\* C10: after k calls of get_temperature on a sampler of window N >= 1 the
\* window holds exactly the last min(N, k) readings in arrival order, and
\* the value the last call returned is the mean of that window rounded to
\* the nearest integer.
C10_WindowIsLastReadings ==
    LET N == tempJson[1].average
        k == Len(readings)
        w == previous_temperatures[1]
    IN  /\ Len(w) = Min2(N, k)
        /\ w = LastOf(readings, Min2(N, k))
        /\ k > 0 => NearestToMean(lastAverage, w)

\* more calls than the window holds, readings that differ, and a mean that
\* is not an integer
C10_Witness ==
    /\ Len(readings) > tempJson[1].average
    /\ tempJson[1].average > 1
    /\ readings[1] # readings[Len(readings)]
    /\ SumSeq(previous_temperatures[1]) % Len(previous_temperatures[1]) # 0
    /\ NearestToMean(lastAverage, previous_temperatures[1])

(* -------------------------------- C11 --------------------------------- *)
\* v is an integer nearest to num / den, den > 0
NearestTo(v, num, den) == 2 * Abs(v * den - num) <= den

\* every entry of the non-empty window w is x
Sustained(w, x) == Len(w) > 0 /\ \A k \in DOMAIN w : w[k] = x

\* C11: with tempMin < tempMax and pwmMin <= pwmMax the target PWM of an
\* iteration is pwmMin when the window average is at or below tempMin,
\* pwmMax when it is at or above tempMax, and otherwise an integer nearest
\* to pwmMin + (pwmMax - pwmMin) * (average - tempMin) / (tempMax - tempMin);
\* with 20..80 degrees and 50..255 a sustained 20 gives 50, a sustained 80
\* gives 255 and a sustained 50 gives 152 or 153.
C11_TargetFollowsTheRamp ==
    LET p == pwm[1]
        tj == tempJson[1]
        w == previous_temperatures[1]
        a == RoundedMean(w)
        t == target[1]
    IN  (t # NoPwm /\ tj.minimum < tj.maximum /\ p.minimum <= p.maximum) =>
            /\ a <= tj.minimum => t = p.minimum
            /\ a >= tj.maximum => t = p.maximum
            /\ (tj.minimum < a /\ a < tj.maximum) =>
                  NearestTo(t, p.minimum * delta(tj)
                               + (p.maximum - p.minimum) * (a - tj.minimum),
                            delta(tj))
            /\ (tj.minimum = 20 /\ tj.maximum = 80
                  /\ p.minimum = 50 /\ p.maximum = 255) =>
                  /\ Sustained(w, 20) => t = 50
                  /\ Sustained(w, 80) => t = 255
                  /\ Sustained(w, 50) => t \in {152, 153}

\* a full window of more than one reading whose average lies strictly inside
\* the temperature range and whose exact PWM is half-way between two integers
C11_Witness ==
    LET p == pwm[1]
        tj == tempJson[1]
        w == previous_temperatures[1]
        a == RoundedMean(w)
    IN  /\ target[1] # NoPwm
        /\ p.minimum = 50 /\ p.maximum = 255
        /\ Len(w) = MaxWindow /\ MaxWindow > 1
        /\ tj.minimum < a /\ a < tj.maximum
        /\ (2 * (p.maximum - p.minimum) * (a - tj.minimum)) % (2 * delta(tj))
              = delta(tj)
        /\ NearestTo(target[1], p.minimum * delta(tj)
                                 + (p.maximum - p.minimum) * (a - tj.minimum),
                      delta(tj))

(* -------------------------------- C12 --------------------------------- *)
\* C12: for all integers min <= max and every fraction,
\* clamped_linear_interpolation(min, max, fraction) lies in [min, max], is
\* min for every fraction < 0 and max for every fraction > 1.
C12_InterpolationSaturates ==
    calcOut # <<>> =>
        LET lo == calcArgs[1]
            hi == calcArgs[2]
            num == calcArgs[3]
            den == calcArgs[4]
            r == calcOut[1]
        IN  /\ lo <= r /\ r <= hi
            /\ num < 0 => r = lo
            /\ num > den => r = hi

\* a fraction above 1 on a range of more than one value: the interpolated
\* value lies beyond the maximum and the result is the maximum
C12_Witness ==
    /\ calcOut # <<>>
    /\ calcArgs[1] < calcArgs[2]
    /\ calcArgs[3] > calcArgs[4]
    /\ calcArgs[1] * calcArgs[4] + (calcArgs[2] - calcArgs[1]) * calcArgs[3]
         > calcArgs[2] * calcArgs[4]
    /\ calcOut[1] = calcArgs[2]

(* -------------------------------- C13 --------------------------------- *)
\* C13: whatever integers the configuration's pwm entry holds and whatever
\* the sensor reads, every value the loop passes to the PWM-output handle,
\* and every value that reaches the device, is an integer in [0, 255], and
\* it equals pwm_clamp applied to clamped_linear_interpolation(pwmMin,
\* pwmMax, fraction of the temperature range).
C13_PwmWrittenInRange ==
    LET p == pwm[1]
        tj == tempJson[1]
        a == RoundedMean(previous_temperatures[1])
        t == target[1]
    IN  /\ pwmDev[1] \in PwmLow..PwmHigh
        /\ t # NoPwm =>
              /\ t \in PwmLow..PwmHigh
              /\ pwmPending[1] = Str(t)
              /\ ParseInt(pwmPending[1]) = t
              /\ p.minimum <= p.maximum =>
                    t = pwm_clamp(clamped_linear_interpolation(
                                      p.minimum, p.maximum, a - tj.minimum, delta(tj)))

\* the file asks for a maximum above 255, the sensor is above the range, and
\* the value that reached the device is 255
C13_Witness ==
    /\ pwmJson[1].maximum > PwmHigh
    /\ iters[1] = MaxIter
    /\ target[1] = PwmHigh
    /\ pwmDev[1] = PwmHigh
    /\ RoundedMean(previous_temperatures[1]) > tempJson[1].maximum

(* -------------------------------- C14 --------------------------------- *)
\* C14: for all integers x, pwm_clamp(x) is in [0, 255], pwm_clamp(x) is x
\* when x is already in [0, 255], and pwm_clamp(pwm_clamp(x)) is pwm_clamp(x).
C14_PwmClampIdempotent ==
    /\ Len(calcOut) >= 1 =>
          /\ calcOut[1] \in 0..255
          /\ calcArgs[1] \in 0..255 => calcOut[1] = calcArgs[1]
    /\ Len(calcOut) >= 2 => calcOut[2] = calcOut[1]

\* an integer above 255 was clamped, and clamped again
C14_Witness ==
    /\ Len(calcOut) = 2
    /\ calcArgs[1] > 255
    /\ calcOut = <<255, 255>>

(* -------------------------------- C15 --------------------------------- *)
\* C15: a fan's loop writes MANUAL to its mode handle exactly once, at its
\* entry, before its first PWM write: no PWM value is computed or written
\* before set_mode(MANUAL) has returned, and in a run that no shutdown
\* shares the handle with, MANUAL has reached the device by then.
C15_ManualOnceBeforePwm ==
    \A i \in Fans :
        /\ manualWrites[i] <= 1
        /\ manualWrites[i] = 1 <=> pc[i] \notin {"idle", "set_mode_write"}
        /\ ~Entered(i) =>
              target[i] = NoPwm /\ pwmPending[i] = <<>> /\ pwmDev[i] = 0
        /\ (Entered(i) /\ sigCount = 0) =>
              modeDev[i] = MANUAL /\ modePending[i] = <<>>

\* a fan has been through MaxIter iterations with no signal delivered
C15_Witness ==
    \E i \in Fans :
        /\ iters[i] = MaxIter /\ pc[i] = "sleep"
        /\ sigCount = 0
        /\ manualWrites[i] = 1
        /\ bootMode[i] # MANUAL /\ modeDev[i] = MANUAL

(* -------------------------------- C16 --------------------------------- *)
\* fan i's loop thread has been started and has not ended
LoopRunning(i) == pc[i] \notin {"idle", "done", "crashed"}

\* C16: from the moment a fan loop has been started every termination
\* signal is bound to graceful_shutdown: in no state is a loop running while
\* a signal would end the process without shutdown() being called.
C16_SignalsBoundWhileLoopsRun ==
    (Alive /\ \E i \in Fans : LoopRunning(i)) => Signals \subseteq registered

(* -------------------------------- C17 --------------------------------- *)
\* C17: when a loop iteration begins its sleep, the PWM-output device holds
\* exactly the target that iteration computed, and nothing of it is still
\* pending in the handle.
C17_PwmDeliveredBeforeSleep ==
    \A i \in Fans :
        pc[i] = "sleep" => (pwmDev[i] = target[i] /\ pwmPending[i] = <<>>)

(* -------------------------------- C18 --------------------------------- *)
\* C18: when the restore write of one fan fails during graceful_shutdown,
\* shutdown() is still called on every other configured fan: once the
\* handler is over, every fan whose restore did not fail has had shutdown()
\* called, holds its original mode and has its running flag false.
C18_RestoreFailureIsLocal ==
    (restoreFailed # {} /\ stack = <<>>) =>
        \A f \in Configured \ restoreFailed :
            /\ stopBegun[f]
            /\ ~is_running[f]

ShutdownMoves ==
    /\ stack # <<>>
    /\ Len(stack') = Len(stack)
    /\ stack' # stack

\* C20: shutdown() changes only the mode-control handle and device and the
\* running flag of its own fan: the temperature history, the PWM-output
\* handle and device, the configured ranges and original_mode stay as they
\* are; original_mode is the mode the device held at construction, and once
\* captured no step of any loop, of set_mode or of shutdown() changes it.
C20_ShutdownFrame ==
    /\ [](\A i \in Fans : original_mode[i] \in {NoMode, bootMode[i]})
    /\ [][\A i \in Fans :
            original_mode[i] # NoMode => original_mode'[i] = original_mode[i]]_vars
    /\ [][ShutdownMoves =>
            /\ previous_temperatures' = previous_temperatures
            /\ pwmDev' = pwmDev /\ pwmPending' = pwmPending /\ target' = target
            /\ pwm' = pwm /\ tempJson' = tempJson /\ pwmJson' = pwmJson
            /\ original_mode' = original_mode
            /\ \A j \in Fans \ {Top.fan} :
                  /\ modeDev'[j] = modeDev[j]
                  /\ modePending'[j] = modePending[j]
                  /\ is_running'[j] = is_running[j]]_vars

\* a fan that booted in a mode other than AUTO has been shut down after
\* MaxIter iterations: its history and its PWM device are as the loop left
\* them and original_mode is the boot mode
C20_Witness ==
    \E i \in Fans :
        /\ bootMode[i] # AUTO /\ original_mode[i] = bootMode[i]
        /\ stopBegun[i] /\ ~is_running[i] /\ NotInShutdown(i)
        /\ iters[i] = MaxIter
        /\ previous_temperatures[i] # <<>>
        /\ pwmDev[i] = target[i]
        /\ modeDev[i] = bootMode[i]

====
